---- MODULE Spec2Model ----
(***************************************************************************)
(* nilmtk/stats/electricity/single.py: statistics of one power-reading     *)
(* series (sample_period, dropout_rate, hours_on, energy) and their        *)
(* aggregation per calendar period (usage_per_period, _indicies_of_periods)*)
(*                                                                         *)
(* Time.  A DatetimeIndex holds integer counts of its resolution unit      *)
(* (nanoseconds in pandas).  The model keeps that integer, in "ticks",     *)
(* with Res ticks to the second (1E9 in the code, line 37).  Everything    *)
(* the code does in seconds is done here on ticks / Res, as rationals      *)
(* <<numerator, denominator>> where the code yields a float.               *)
(*                                                                         *)
(* A Period of frequency freq is its ordinal p: the half-open interval     *)
(* [p * PeriodTicks, (p+1) * PeriodTicks).  Only the fixed-length aliases  *)
(* 'T', 'H', 'D' are modelled ('M' and 'A' have calendar-dependent length).*)
(***************************************************************************)
EXTENDS Integers, Sequences, FiniteSets, TLC

VARIABLES
    call,                \* the function of the module that was called
    index,               \* series.index / datetime_index: ticks, ascending
    values,              \* series.values: watts
    freq,                \* period alias
    use_local_time,      \* _indicies_of_periods(use_local_time=)
    tz_offset,           \* UTC offset of the first sample, in ticks
    on_power_threshold,
    max_dropout_rate,    \* in tenths: 4 is 0.4
    energy_unit,
    max_sample_period,   \* None or <<number>>
    pc,                  \* position in the call
    period_i,            \* periods already visited by the resolver's loop
    n_rows_processed,
    boundaries,          \* dict: period -> <<start index, end index>>
    examined,            \* rows put in rows_to_process so far (bookkeeping)
    usage_i,             \* periods already visited by usage_per_period's loop
    hours_on_series,
    energy_series,
    result               \* the returned value, or the exception raised

vars == <<call, index, values, freq, use_local_time, tz_offset,
          on_power_threshold, max_dropout_rate, energy_unit,
          max_sample_period, pc, period_i, n_rows_processed, boundaries,
          examined, usage_i, hours_on_series, energy_series, result>>

(***************************************************************************)
(* Bounds of the model.                                                    *)
(***************************************************************************)
\* ticks per second
Res == 2
\* longest series drawn from Grid for a direct call of the resolver
MaxLen == 6
\* longest series drawn from UsageGrid for the statistics and the usage table
MaxUsageLen == 4
\* most days of a regular series
MaxDays == 3

(***************************************************************************)
(* Program constants.                                                      *)
(***************************************************************************)
SEC_PER_HOUR == 3600
JOULES_PER_KWH == 3600000
\* sample_period looks at index.values[:100]
SAMPLE_PERIOD_PREFIX == 100

None == <<>>
NaN == <<>>

(***************************************************************************)
(* Helpers on sets and sequences.                                          *)
(***************************************************************************)
Min(S) == CHOOSE x \in S : \A y \in S : x <= y
Max(S) == CHOOSE x \in S : \A y \in S : x >= y

RECURSIVE SortedSeq(_)
SortedSeq(S) == IF S = {} THEN <<>> ELSE <<Min(S)>> \o SortedSeq(S \ {Min(S)})

RECURSIVE SumSeq(_)
SumSeq(s) == IF s = <<>> THEN 0 ELSE Head(s) + SumSeq(Tail(s))

\* s[a:b] with Python's 0-based, end-exclusive, clipped slice
Slice(s, a, b) ==
    LET hi == IF b < Len(s) THEN b ELSE Len(s)
    IN  IF a >= hi THEN <<>> ELSE [k \in 1..(hi - a) |-> s[a + k]]

\* np.diff
Diff(s) == IF Len(s) < 2 THEN <<>> ELSE [k \in 1..(Len(s) - 1) |-> s[k + 1] - s[k]]

(***************************************************************************)
(* sample_period (lines 13-38): the mode of the forward differences of the *)
(* first 100 timestamps; scipy.stats.mode returns the smallest of the most *)
(* frequent values.  The value is in ticks: the code's float is           *)
(* sample_period / Res seconds.                                            *)
(***************************************************************************)
Count(s, v) == Cardinality({k \in DOMAIN s : s[k] = v})

Mode(s) ==
    CHOOSE v \in {s[k] : k \in DOMAIN s} :
        \A w \in {s[k] : k \in DOMAIN s} :
            \/ Count(s, v) > Count(s, w)
            \/ Count(s, v) = Count(s, w) /\ v <= w

sample_period(data) == Mode(Diff(Slice(data, 0, SAMPLE_PERIOD_PREFIX)))

(***************************************************************************)
(* _secs_per_period_alias (lines 335-338)                                  *)
(***************************************************************************)
secs_per_period_alias(alias) ==
    CASE alias = "T" -> 60
      [] alias = "H" -> 3600
      [] alias = "D" -> 86400

PeriodTicks == secs_per_period_alias(freq) * Res

\* the Period of frequency freq that holds instant t
PeriodOf(t) == t \div PeriodTicks
start_time(p) == p * PeriodTicks
\* Period.end_time: the last instant of the period, one tick before the next
end_time(p) == (p + 1) * PeriodTicks - 1

\* pd.period_range(first, last, freq)
period_range(first, last) ==
    [k \in 1..(PeriodOf(last) - PeriodOf(first) + 1) |-> PeriodOf(first) + k - 1]

(***************************************************************************)
(* _indicies_of_periods (lines 341-456)                                    *)
(***************************************************************************)
\* lines 410-415: the index shifted so that UTC time reads as local time
datetime_index ==
    [k \in DOMAIN index |-> index[k] + (IF use_local_time THEN tz_offset ELSE 0)]

periods == period_range(datetime_index[1], datetime_index[Len(index)])

MIN_SAMPLE_PERIOD == sample_period(datetime_index) \div Res
Indicies_MAX_SAMPLES_PER_PERIOD == secs_per_period_alias(freq) \div MIN_SAMPLE_PERIOD
MAX_SAMPLES_PER_2_PERIODS == Indicies_MAX_SAMPLES_PER_PERIOD * 2

\* line 447-448: the 0-based positions of datetime_index[n_rows_processed:end_index]
rows_to_process ==
    LET end_index == n_rows_processed + MAX_SAMPLES_PER_2_PERIODS
        stop == IF end_index < Len(index) THEN end_index ELSE Len(index)
    IN  {i \in 0..(Len(index) - 1) : n_rows_processed <= i /\ i < stop}

\* a plausible slip: also ask for the period's start
indicies_for_period_from_start(period) ==
    {i - n_rows_processed : i \in {j \in rows_to_process :
        /\ datetime_index[j + 1] < end_time(period)
        /\ datetime_index[j + 1] >= start_time(period)}}

\* line 449: np.where(rows_to_process < period.end_time)[0]
indicies_for_period(period) ==
    {i - n_rows_processed : i \in {j \in rows_to_process :
        datetime_index[j + 1] < end_time(period)}}

\* dict assignment boundaries[period] = v
SetItem(d, k, v) == [x \in (DOMAIN d) \cup {k} |-> IF x = k THEN v ELSE d[x]]

\* line 430 divides by MIN_SAMPLE_PERIOD = int(sample_period): a mode below
\* one second raises ZeroDivisionError
indicies_raise ==
    /\ pc = "start"
    /\ call \in {"_indicies_of_periods", "usage_per_period"}
    /\ MIN_SAMPLE_PERIOD = 0
    /\ pc' = "error"
    /\ result' = "ZeroDivisionError"
    /\ UNCHANGED <<call, index, values, freq, use_local_time, tz_offset,
                   on_power_threshold, max_dropout_rate, energy_unit,
                   max_sample_period, period_i, n_rows_processed, boundaries,
                   examined, usage_i, hours_on_series, energy_series>>

\* lines 423-433
indicies_begin ==
    /\ pc = "start"
    /\ call \in {"_indicies_of_periods", "usage_per_period"}
    /\ MIN_SAMPLE_PERIOD > 0
    /\ pc' = "indicies"
    /\ period_i' = 0
    /\ n_rows_processed' = 0
    /\ boundaries' = <<>>
    /\ examined' = 0
    /\ UNCHANGED <<call, index, values, freq, use_local_time, tz_offset,
                   on_power_threshold, max_dropout_rate, energy_unit,
                   max_sample_period, usage_i, hours_on_series, energy_series,
                   result>>

\* lines 434-454, one pass of the loop, samples found
indicies_step_found ==
    /\ pc = "indicies"
    /\ period_i < Len(periods)
    /\ LET period == periods[period_i + 1]
           found == indicies_for_period(period)
       IN  /\ found # {}
           /\ LET first_i_for_period == Min(found) + n_rows_processed
                  last_i_for_period == Max(found) + n_rows_processed + 1
              IN  /\ boundaries' = SetItem(boundaries, period,
                                       <<first_i_for_period, last_i_for_period>>)
                  /\ n_rows_processed' = n_rows_processed
                                         + (last_i_for_period - first_i_for_period)
    /\ examined' = examined + Cardinality(rows_to_process)
    /\ period_i' = period_i + 1
    /\ UNCHANGED <<call, index, values, freq, use_local_time, tz_offset,
                   on_power_threshold, max_dropout_rate, energy_unit,
                   max_sample_period, pc, usage_i, hours_on_series,
                   energy_series, result>>

\* lines 434-454, one pass of the loop, no sample found
indicies_step_empty ==
    /\ pc = "indicies"
    /\ period_i < Len(periods)
    /\ indicies_for_period(periods[period_i + 1]) = {}
    /\ examined' = examined + Cardinality(rows_to_process)
    /\ period_i' = period_i + 1
    /\ UNCHANGED <<call, index, values, freq, use_local_time, tz_offset,
                   on_power_threshold, max_dropout_rate, energy_unit,
                   max_sample_period, pc, n_rows_processed, boundaries,
                   usage_i, hours_on_series, energy_series, result>>

\* line 456: return periods, boundaries
indicies_return ==
    /\ pc = "indicies"
    /\ period_i = Len(periods)
    /\ call = "_indicies_of_periods"
    /\ pc' = "done"
    /\ result' = <<periods, boundaries>>
    /\ UNCHANGED <<call, index, values, freq, use_local_time, tz_offset,
                   on_power_threshold, max_dropout_rate, energy_unit,
                   max_sample_period, period_i, n_rows_processed, boundaries,
                   examined, usage_i, hours_on_series, energy_series>>

(***************************************************************************)
(* dropout_rate (lines 41-57): 1 - size / (duration / sample_period)       *)
(*   = (duration - size * sample_period) / duration, both in ticks.        *)
(***************************************************************************)
dropout_rate(df) ==
    LET duration == df[Len(df)] - df[1]
    IN  <<duration - Len(df) * sample_period(df), duration>>

(***************************************************************************)
(* hours_on (lines 60-100) of the series with index idx and values vals.   *)
(* Line 97 compares the timedelta64 gaps, which count ticks, with the      *)
(* number max_sample_period itself and stores that number in their place.  *)
(* Line 99 truncates the sum to whole seconds.                             *)
(***************************************************************************)
cap(td, msp) == IF msp # None /\ td > msp[1] THEN msp[1] ELSE td

hours_on(idx, vals, threshold, msp) ==
    LET i_above_threshold ==
            SortedSeq({i \in 0..(Len(vals) - 2) : vals[i + 1] >= threshold})
        td_above_thresh ==
            [k \in DOMAIN i_above_threshold |->
                cap(idx[i_above_threshold[k] + 2] - idx[i_above_threshold[k] + 1], msp)]
        secs_on == SumSeq(td_above_thresh) \div Res
    IN  <<secs_on, SEC_PER_HOUR>>

(***************************************************************************)
(* energy (lines 103-146).  Line 134 caps the gaps like hours_on does;     *)
(* line 135 turns ticks into (float) seconds, so joules = sum / Res.       *)
(***************************************************************************)
energy_raises(unit) == unit \notin {"kwh", "joules"}

energy(idx, vals, msp, unit) ==
    LET td == [k \in DOMAIN Diff(idx) |-> cap(Diff(idx)[k], msp)]
        joules == SumSeq([k \in DOMAIN td |-> td[k] * vals[k]])
    IN  IF unit = "kwh" THEN <<joules, Res * JOULES_PER_KWH>>
                        ELSE <<joules, Res>>

call_dropout_rate ==
    /\ pc = "start"
    /\ call = "dropout_rate"
    /\ pc' = "done"
    /\ result' = dropout_rate(index)
    /\ UNCHANGED <<call, index, values, freq, use_local_time, tz_offset,
                   on_power_threshold, max_dropout_rate, energy_unit,
                   max_sample_period, period_i, n_rows_processed, boundaries,
                   examined, usage_i, hours_on_series, energy_series>>

call_hours_on ==
    /\ pc = "start"
    /\ call = "hours_on"
    /\ pc' = "done"
    /\ result' = hours_on(index, values, on_power_threshold, max_sample_period)
    /\ UNCHANGED <<call, index, values, freq, use_local_time, tz_offset,
                   on_power_threshold, max_dropout_rate, energy_unit,
                   max_sample_period, period_i, n_rows_processed, boundaries,
                   examined, usage_i, hours_on_series, energy_series>>

call_energy ==
    /\ pc = "start"
    /\ call = "energy"
    /\ ~energy_raises(energy_unit)
    /\ pc' = "done"
    /\ result' = energy(index, values, max_sample_period, energy_unit)
    /\ UNCHANGED <<call, index, values, freq, use_local_time, tz_offset,
                   on_power_threshold, max_dropout_rate, energy_unit,
                   max_sample_period, period_i, n_rows_processed, boundaries,
                   examined, usage_i, hours_on_series, energy_series>>

\* line 144
call_energy_raise ==
    /\ pc = "start"
    /\ call = "energy"
    /\ energy_raises(energy_unit)
    /\ pc' = "error"
    /\ result' = "ValueError"
    /\ UNCHANGED <<call, index, values, freq, use_local_time, tz_offset,
                   on_power_threshold, max_dropout_rate, energy_unit,
                   max_sample_period, period_i, n_rows_processed, boundaries,
                   examined, usage_i, hours_on_series, energy_series>>

(***************************************************************************)
(* usage_per_period (lines 149-330)                                        *)
(***************************************************************************)
\* a plausible slip: index the output by the populated periods only
new_series_populated_only(period_range_) ==
    LET kept == SortedSeq({k \in DOMAIN period_range_ :
                              period_range_[k] \in DOMAIN boundaries})
    IN  [k \in DOMAIN kept |-> [period |-> period_range_[kept[k]], value |-> NaN]]

\* lines 291-294: pd.Series(index=period_range, dtype=float), all NaN
new_series(period_range_) ==
    [k \in DOMAIN period_range_ |-> [period |-> period_range_[k], value |-> NaN]]

\* lines 322, 325: series[period] = v sets the entry labelled period
SetByLabel(s, period, v) ==
    [k \in DOMAIN s |-> IF s[k].period = period THEN [s[k] EXCEPT !.value = v]
                                                 ELSE s[k]]

\* a plausible slip: the slice runs one sample into the next period
data_for_period_inclusive(s, period_start_i, period_end_i) ==
    Slice(s, period_start_i, period_end_i + 1)

\* line 309: series[period_start_i:period_end_i]
data_for_period(s, period_start_i, period_end_i) ==
    Slice(s, period_start_i, period_end_i)

\* a plausible slip: <= for <
insufficient_or_equal(size) ==
    size * sample_period(index) * 10
        <= secs_per_period_alias(freq) * Res * (10 - max_dropout_rate)

\* lines 296-298, 310: data_for_period.size < MIN_SAMPLES_PER_PERIOD, where
\* MAX_SAMPLES_PER_PERIOD = secs / (sample_period / Res) and
\* MIN_SAMPLES_PER_PERIOD = MAX_SAMPLES_PER_PERIOD * (10 - max_dropout_rate) / 10
insufficient(size) ==
    size * sample_period(index) * 10
        < secs_per_period_alias(freq) * Res * (10 - max_dropout_rate)

\* lines 329-330
DataFrame(hours, en) ==
    [columns |-> <<"hours_on", energy_unit>>,
     rows |-> [k \in DOMAIN hours |->
                 [period |-> hours[k].period,
                  hours_on |-> hours[k].value,
                  energy |-> en[k].value]]]

\* lines 289-298: the resolver has returned
usage_begin ==
    /\ pc = "indicies"
    /\ period_i = Len(periods)
    /\ call = "usage_per_period"
    /\ pc' = "usage"
    /\ usage_i' = 0
    /\ hours_on_series' = new_series(periods)
    /\ energy_series' = new_series(periods)
    /\ UNCHANGED <<call, index, values, freq, use_local_time, tz_offset,
                   on_power_threshold, max_dropout_rate, energy_unit,
                   max_sample_period, period_i, n_rows_processed, boundaries,
                   examined, result>>

\* lines 301-307: KeyError, continue
usage_step_no_data ==
    /\ pc = "usage"
    /\ usage_i < Len(periods)
    /\ periods[usage_i + 1] \notin DOMAIN boundaries
    /\ usage_i' = usage_i + 1
    /\ UNCHANGED <<call, index, values, freq, use_local_time, tz_offset,
                   on_power_threshold, max_dropout_rate, energy_unit,
                   max_sample_period, pc, period_i, n_rows_processed,
                   boundaries, examined, hours_on_series, energy_series,
                   result>>

\* lines 309-320: too few samples, continue
usage_step_insufficient ==
    /\ pc = "usage"
    /\ usage_i < Len(periods)
    /\ periods[usage_i + 1] \in DOMAIN boundaries
    /\ LET b == boundaries[periods[usage_i + 1]]
       IN  insufficient(Len(data_for_period(index, b[1], b[2])))
    /\ usage_i' = usage_i + 1
    /\ UNCHANGED <<call, index, values, freq, use_local_time, tz_offset,
                   on_power_threshold, max_dropout_rate, energy_unit,
                   max_sample_period, pc, period_i, n_rows_processed,
                   boundaries, examined, hours_on_series, energy_series,
                   result>>

\* lines 322-327
usage_step_populate ==
    /\ pc = "usage"
    /\ usage_i < Len(periods)
    /\ periods[usage_i + 1] \in DOMAIN boundaries
    /\ LET period == periods[usage_i + 1]
           b == boundaries[period]
           idx == data_for_period(index, b[1], b[2])
           vals == data_for_period(values, b[1], b[2])
       IN  /\ ~insufficient(Len(idx))
           /\ ~energy_raises(energy_unit)
           /\ hours_on_series' = SetByLabel(hours_on_series, period,
                  hours_on(idx, vals, on_power_threshold, max_sample_period))
           /\ energy_series' = SetByLabel(energy_series, period,
                  energy(idx, vals, max_sample_period, energy_unit))
    /\ usage_i' = usage_i + 1
    /\ UNCHANGED <<call, index, values, freq, use_local_time, tz_offset,
                   on_power_threshold, max_dropout_rate, energy_unit,
                   max_sample_period, pc, period_i, n_rows_processed,
                   boundaries, examined, result>>

\* lines 322-327 when energy raises (line 144): hours_on was stored, the
\* exception leaves usage_per_period
usage_step_raise ==
    /\ pc = "usage"
    /\ usage_i < Len(periods)
    /\ periods[usage_i + 1] \in DOMAIN boundaries
    /\ LET period == periods[usage_i + 1]
           b == boundaries[period]
           idx == data_for_period(index, b[1], b[2])
           vals == data_for_period(values, b[1], b[2])
       IN  /\ ~insufficient(Len(idx))
           /\ energy_raises(energy_unit)
           /\ hours_on_series' = SetByLabel(hours_on_series, period,
                  hours_on(idx, vals, on_power_threshold, max_sample_period))
    /\ pc' = "error"
    /\ result' = "ValueError"
    /\ UNCHANGED <<call, index, values, freq, use_local_time, tz_offset,
                   on_power_threshold, max_dropout_rate, energy_unit,
                   max_sample_period, period_i, n_rows_processed, boundaries,
                   examined, usage_i, energy_series>>

\* lines 329-330
usage_return ==
    /\ pc = "usage"
    /\ usage_i = Len(periods)
    /\ pc' = "done"
    /\ result' = DataFrame(hours_on_series, energy_series)
    /\ UNCHANGED <<call, index, values, freq, use_local_time, tz_offset,
                   on_power_threshold, max_dropout_rate, energy_unit,
                   max_sample_period, period_i, n_rows_processed, boundaries,
                   examined, usage_i, hours_on_series, energy_series>>

(***************************************************************************)
(* The calls explored.                                                     *)
(***************************************************************************)
Secs(s) == s * Res

\* instants for direct calls of the resolver with freq 'T': period borders,
\* sub-second neighbours, a cluster in the third minute, a long silence
Grid ==
    {0, 1, 3, Secs(30), Secs(60) - 1, Secs(60), Secs(120), Secs(120) + 1,
     Secs(120) + 3, Secs(180), Secs(720), Secs(750)}

\* instants for the statistics and the usage table with freq 'T'
UsageGrid == {0, 3, Secs(30), Secs(60), Secs(90), Secs(150)}

Watts == {0, 100}

SeriesOver(G, maxlen) ==
    {SortedSeq(S) : S \in {T \in SUBSET G : Cardinality(T) \in 2..maxlen}}

\* per_period evenly spaced samples in each of n_periods periods, from the
\* start of period 0; of the first period only the first kept_first samples
\* were recorded
Regular(alias, per_period, n_periods, kept_first) ==
    LET gap == (secs_per_period_alias(alias) * Res) \div per_period
        skipped == per_period - kept_first
    IN  [k \in 1..(n_periods * per_period - skipped) |->
            IF k <= kept_first THEN (k - 1) * gap
                               ELSE (k - 1 + skipped) * gap]

TzOffsets == {0, Secs(0 - 14400)}

NoLoopState ==
    /\ pc = "start"
    /\ period_i = 0
    /\ n_rows_processed = 0
    /\ boundaries = <<>>
    /\ examined = 0
    /\ usage_i = 0
    /\ hours_on_series = <<>>
    /\ energy_series = <<>>
    /\ result = None

InitIndicies ==
    /\ call = "_indicies_of_periods"
    /\ index \in SeriesOver(Grid, MaxLen)
    /\ values = [k \in DOMAIN index |-> 0]
    /\ freq = "T"
    /\ use_local_time \in BOOLEAN
    /\ tz_offset \in TzOffsets
    /\ on_power_threshold = 5
    /\ max_dropout_rate = 4
    /\ energy_unit = "kwh"
    /\ max_sample_period = None

InitStats ==
    /\ call \in {"dropout_rate", "hours_on", "energy"}
    /\ index \in SeriesOver(UsageGrid, MaxUsageLen)
    /\ values \in [DOMAIN index -> IF call = "dropout_rate" THEN {0} ELSE Watts]
    /\ freq = "T"
    /\ use_local_time = TRUE
    /\ tz_offset = 0
    /\ on_power_threshold \in IF call = "hours_on" THEN {5, 100} ELSE {5}
    /\ max_dropout_rate = 4
    /\ energy_unit \in IF call = "energy" THEN {"kwh", "joules", "btu"} ELSE {"kwh"}
    /\ max_sample_period \in IF call = "dropout_rate" THEN {None} ELSE {None, <<20>>}

InitUsage ==
    /\ call = "usage_per_period"
    /\ index \in SeriesOver(UsageGrid, MaxUsageLen)
    /\ values \in [DOMAIN index -> Watts]
    /\ freq = "T"
    /\ use_local_time = TRUE
    /\ tz_offset = 0
    /\ on_power_threshold = 5
    /\ max_dropout_rate \in {0, 4, 10}
    /\ energy_unit \in {"kwh", "joules", "btu"}
    /\ max_sample_period \in {None, <<20>>}

InitRegular ==
    /\ call = "usage_per_period"
    /\ freq \in {"T", "H", "D"}
    /\ \E n_periods \in 1..MaxDays, kept_first \in {3, 6, 10} :
          index = Regular(freq, 10, n_periods, kept_first)
    /\ values = [k \in DOMAIN index |-> 100]
    /\ use_local_time = TRUE
    /\ tz_offset \in TzOffsets
    /\ on_power_threshold = 5
    /\ max_dropout_rate = 4
    /\ energy_unit \in {"kwh", "joules", "btu"}
    /\ max_sample_period \in {None, <<20>>}

Init ==
    /\ NoLoopState
    /\ \/ InitIndicies
       \/ InitStats
       \/ InitUsage
       \/ InitRegular

Next ==
    \/ indicies_raise
    \/ indicies_begin
    \/ indicies_step_found
    \/ indicies_step_empty
    \/ indicies_return
    \/ call_dropout_rate
    \/ call_hours_on
    \/ call_energy
    \/ call_energy_raise
    \/ usage_begin
    \/ usage_step_no_data
    \/ usage_step_insufficient
    \/ usage_step_populate
    \/ usage_step_raise
    \/ usage_return

Spec == Init /\ [][Next]_vars

(***************************************************************************)
(* Properties.                                                             *)
(***************************************************************************)
\* the resolver's loop has visited every period
ResolverDone ==
    /\ call \in {"_indicies_of_periods", "usage_per_period"}
    /\ pc \in {"indicies", "usage", "done"}
    /\ period_i = Len(periods)

\* the indices of a stored range
Range(b) == {i \in 0..(Len(index) - 1) : b[1] <= i /\ i < b[2]}

Covered == UNION {Range(boundaries[p]) : p \in DOMAIN boundaries}

NoGapLargerThanPeriod ==
    \A k \in DOMAIN Diff(datetime_index) : Diff(datetime_index)[k] <= PeriodTicks

\* C1: when _indicies_of_periods returns, the ranges are non-empty, pairwise
\* disjoint and ascending in period order, and, if no gap between consecutive
\* samples is larger than one period, their union is every index 0 .. n-1.
C1_RangesPartitionIndex ==
    ResolverDone =>
        /\ \A p \in DOMAIN boundaries : boundaries[p][1] < boundaries[p][2]
        /\ \A p, q \in DOMAIN boundaries :
              p < q => boundaries[p][2] <= boundaries[q][1]
        /\ NoGapLargerThanPeriod => Covered = 0..(Len(index) - 1)

\* C5: every index in the range stored for period p is of a sample whose
\* shifted timestamp lies in [start of p, start of p + 1).
C5_SamplesInTheirPeriod ==
    pc \in {"indicies", "usage", "done"} =>
        \A p \in DOMAIN boundaries :
            \A i \in Range(boundaries[p]) : PeriodOf(datetime_index[i + 1]) = p

\* C6: dropout_rate returns a proportion between 0 and 1.
C6_DropoutRateIsProportion ==
    (pc = "done" /\ call = "dropout_rate") =>
        /\ result[2] > 0
        /\ 0 <= result[1]
        /\ result[1] <= result[2]

\* C7: with an energy unit other than 'kwh' and 'joules', neither energy nor
\* usage_per_period returns a value.
C7_UnknownUnitNeverReturns ==
    (call \in {"energy", "usage_per_period"} /\ energy_raises(energy_unit))
        => pc # "done"

\* the stored ranges chain from index 0 up to n_rows_processed
StoredChain ==
    /\ \A p \in DOMAIN boundaries : boundaries[p][1] < boundaries[p][2]
    /\ \A p \in DOMAIN boundaries :
          boundaries[p][1] =
              IF \E q \in DOMAIN boundaries : q < p
              THEN boundaries[Max({q \in DOMAIN boundaries : q < p})][2]
              ELSE 0
    /\ Covered = 0..(n_rows_processed - 1)

\* C8: a pass of the resolver's loop never lowers n_rows_processed; a pass
\* that stores a range leaves it at that range's end, a pass that stores none
\* leaves it unchanged; and after the pass every stored range is non-empty,
\* the first starts at 0, each starts where the one before ended, and
\* together they are the prefix 0 .. n_rows_processed - 1.
C8_ScanAdvancesMonotonically ==
    [][(pc = "indicies" /\ period_i' = period_i + 1) =>
          LET period == periods[period_i + 1]
          IN  /\ n_rows_processed' >= n_rows_processed
              /\ period \in DOMAIN boundaries' =>
                    n_rows_processed' = boundaries'[period][2]
              /\ period \notin DOMAIN boundaries' =>
                    /\ n_rows_processed' = n_rows_processed
                    /\ boundaries' = boundaries
              /\ StoredChain']_vars

\* two ranges stored and an empty period passed
C8_Witness ==
    /\ pc = "indicies"
    /\ Cardinality(DOMAIN boundaries) >= 2
    /\ period_i > Cardinality(DOMAIN boundaries)
    /\ n_rows_processed = Len(index)

\* C9: the rows examined over a whole run of the resolver stay within a small
\* constant factor (here 4) of the number of samples.
C9_ExaminedLinearInSamples ==
    ResolverDone => examined <= 4 * Len(index)

\* the on-time in ticks with every gap capped at max_sample_period seconds
ClaimedOnTicks ==
    SumSeq([k \in 1..(Len(index) - 1) |->
        IF values[k] >= on_power_threshold
        THEN IF max_sample_period # None
                 /\ index[k + 1] - index[k] > max_sample_period[1] * Res
             THEN max_sample_period[1] * Res
             ELSE index[k + 1] - index[k]
        ELSE 0])

\* C10: hours_on is the sum, over the samples but the last that read at least
\* on_power_threshold, of the gap to the next sample capped at
\* max_sample_period seconds (the truncation of line 99 to a whole second
\* is allowed for).
C10_HoursOnCapsInSeconds ==
    (pc = "done" /\ call = "hours_on") =>
        /\ result[2] = SEC_PER_HOUR
        /\ result[1] * Res <= ClaimedOnTicks
        /\ ClaimedOnTicks < (result[1] + 1) * Res

\* the rows of the returned table
UsageDone == pc = "done" /\ call = "usage_per_period"

Missing(row) == row.hours_on = NaN /\ row.energy = NaN

\* C2: in the returned table the row of a period is missing in both columns
\* if the period is not in the boundary map or holds fewer samples than
\* (period seconds / sample period) * (1 - max_dropout_rate); otherwise it
\* holds hours_on and energy of exactly the samples of the period's range.
C2_RowsFollowSufficiencyPolicy ==
    UsageDone =>
        \A k \in DOMAIN periods :
            /\ k \in DOMAIN result.rows
            /\ LET p == periods[k]
                   row == result.rows[k]
               IN  IF p \notin DOMAIN boundaries
                   THEN Missing(row)
                   ELSE LET b == boundaries[p]
                            size == b[2] - b[1]
                        IN  IF size * sample_period(index) * 10
                                 < secs_per_period_alias(freq) * Res
                                     * (10 - max_dropout_rate)
                            THEN Missing(row)
                            ELSE /\ row.hours_on =
                                       hours_on(Slice(index, b[1], b[2]),
                                                Slice(values, b[1], b[2]),
                                                on_power_threshold,
                                                max_sample_period)
                                 /\ row.energy =
                                       energy(Slice(index, b[1], b[2]),
                                              Slice(values, b[1], b[2]),
                                              max_sample_period, energy_unit)

\* a table whose first period holds 3 of an expected 10 samples with
\* max_dropout_rate 0.4 and is missing, and whose next period is populated
C2_Witness ==
    /\ UsageDone
    /\ max_dropout_rate = 4
    /\ sample_period(index) * 10 = PeriodTicks
    /\ Len(result.rows) >= 2
    /\ periods[1] \in DOMAIN boundaries
    /\ boundaries[periods[1]] = <<0, 3>>
    /\ Missing(result.rows[1])
    /\ ~Missing(result.rows[2])

\* C3: the returned table has one row per period of the resolver's period
\* range, in that order, whether the period was populated or skipped.
C3_OneRowPerPeriodInOrder ==
    UsageDone =>
        /\ Len(result.rows) = Len(periods)
        /\ \A k \in DOMAIN periods : result.rows[k].period = periods[k]

\* a table with a period without data, a period with too few samples and a
\* populated period
C3_Witness ==
    /\ UsageDone
    /\ \E k \in DOMAIN periods : periods[k] \notin DOMAIN boundaries
    /\ \E k \in DOMAIN periods :
          periods[k] \in DOMAIN boundaries /\ Missing(result.rows[k])
    /\ \E k \in DOMAIN periods : ~Missing(result.rows[k])

\* the series of the end-to-end scenario: 10 samples a day for 3 days from
\* midnight, 100 W, threshold 5 W, no cap, daily, kwh
DailyScenario ==
    /\ call = "usage_per_period"
    /\ freq = "D"
    /\ index = Regular("D", 10, 3, 10)
    /\ \A k \in DOMAIN values : values[k] = 100
    /\ tz_offset = 0
    /\ on_power_threshold = 5
    /\ max_sample_period = None
    /\ energy_unit = "kwh"

\* C4 as stated: 3 rows, each with hours_on within 0.05 of 24.0 and kwh
\* within 0.05 of 2.4.
C4_FullDayPerRow ==
    (DailyScenario /\ pc = "done") =>
        /\ Len(result.rows) = 3
        /\ \A k \in DOMAIN result.rows :
              LET row == result.rows[k]
              IN  /\ ~Missing(row)
                  /\ row.hours_on[1] * 100 >= 2395 * row.hours_on[2]
                  /\ row.hours_on[1] * 100 <= 2405 * row.hours_on[2]
                  /\ row.energy[1] \div 1000 >= (235 * (row.energy[2] \div 1000)) \div 100
                  /\ row.energy[1] \div 1000 <= (245 * (row.energy[2] \div 1000)) \div 100

\* C4 amended: 3 rows, each with hours_on = 77760 s / 3600 = 21.6 and
\* kwh = 7,776,000 J / 3,600,000 = 2.16: the nine gaps between the ten
\* samples of a day.
C4_NineGapsPerRow ==
    (DailyScenario /\ pc = "done") =>
        /\ Len(result.rows) = 3
        /\ \A k \in DOMAIN result.rows :
              LET row == result.rows[k]
              IN  /\ row.hours_on = <<77760, SEC_PER_HOUR>>
                  /\ row.energy = <<7776000 * Res, Res * JOULES_PER_KWH>>

C4_Witness == DailyScenario /\ pc = "done" /\ Len(result.rows) = 3

====
